---- MODULE Spec2Model ----
(***************************************************************************)
(* Model of the two Solidity contracts of the repository:                  *)
(*   ContractCaller   (the "Relay")  and                                   *)
(*   ReceiverContract (the "Ledger").                                      *)
(* Every externally submitted transaction is one atomic action: it either  *)
(* commits the state computed by the contract code, or reverts to the      *)
(* state it started from.  Calls made inside a transaction (the Relay      *)
(* calling the Ledger, the Ledger calling a recipient, a recipient         *)
(* contract calling back) are evaluated by the operators below, each       *)
(* returning [ok, err, s]; a failed frame returns the state it was         *)
(* entered with, which is the EVM's revert.                                *)
(*                                                                         *)
(* uint256 arithmetic is checked (Solidity 0.8); all amounts of the model  *)
(* are bounded by the native supply, far below 2^256, so no addition here  *)
(* overflows and the only subtraction is guarded by its require.           *)
(*                                                                         *)
(* The two driver scripts (deploy_contracts.js and the call script) are    *)
(* modelled as one process at a time that runs from its start to its exit; *)
(* every step that awaits the node or the file system can fail.            *)
(***************************************************************************)
EXTENDS Integers, Sequences, FiniteSets, TLC

\* ------------------------------------------------------------ bounds
MaxAmount == 2      \* amounts and msg.value of operations range over 0..MaxAmount
MaxReceived == 2    \* deposits are taken while totalReceived stays at most MaxReceived
MaxTransfers == 1   \* forwarded deposits are taken while totalTransfers stays at most MaxTransfers
MaxDepth == 1       \* nesting depth up to which the external contract calls back
MaxNonce == 3       \* the driver scripts are started while the account's transaction count stays at most MaxNonce

\* ------------------------------------------------------------ addresses
Deployer == "deployer"            \* the externally owned account that deploys both contracts
Mallory == "mallory"              \* a contract outside the repository: a driver and a recipient
ContractCaller == "ContractCaller"      \* the Relay
ReceiverContract == "ReceiverContract"  \* the Ledger

Accounts == {Deployer, Mallory, ContractCaller, ReceiverContract}
Drivers == {Deployer, Mallory}    \* who submits operations to the contracts
Amounts == 0..MaxAmount

\* Native funds at deployment: the two contracts are new and hold nothing,
\* the drivers hold two units between them (three in some of the runs of
\* deposits only).
Funds(deployer, mallory) ==
    [a \in Accounts |->
        CASE a = Deployer -> deployer
          [] a = Mallory -> mallory
          [] OTHER -> 0]
InitialFunds == {Funds(2, 0), Funds(1, 1), Funds(0, 2)}
DepositFunds == InitialFunds \cup {Funds(2, 1), Funds(1, 2)}

\* What the code of Mallory does when it is called with empty calldata: it is
\* the recipient of `recipient.call{value: ..}("")`, and its code is not part
\* of the repository, so every behaviour below is possible.
Accept == [op |-> "accept", to |-> Mallory, amt |-> 0]
Reject == [op |-> "reject", to |-> Mallory, amt |-> 0]
Callbacks ==
    {Accept, Reject}
    \cup {[op |-> "receiveFunds", to |-> ReceiverContract, amt |-> 1]}
    \cup {[op |-> "transferTo", to |-> Deployer, amt |-> 1]}
    \cup {[op |-> "transferWithValue", to |-> Mallory, amt |-> 1]}
    \cup {[op |-> "callReceiverContract", to |-> ContractCaller, amt |-> 1]}

VARIABLES
    owner,            \* ReceiverContract.owner
    totalReceived,    \* ReceiverContract.totalReceived
    balances,         \* ReceiverContract.balances
    receiverContract, \* ContractCaller.receiverContract
    totalTransfers,   \* ContractCaller.totalTransfers
    eth,              \* native balance of every account: address(a).balance
    log,              \* the events the last transaction appended to the event log, in order
    trace,            \* steps of the last transaction, in execution order
    last,             \* the last transaction submitted and its outcome
    script,           \* the driver script that runs or ran last: "none", "deploy", "call"
    pc,               \* the position of that process
    env,              \* process.env: which of RPC_URL and PRIVATE_KEY are set
    nonce,            \* main's local `nonce`
    receipts,         \* the receipts the process obtained, in order
    sent,             \* the transactions the process passed to sendSignedTransaction
    rpcs,             \* the trace RPCs the process issued, with their results
    failed,           \* the steps of the process that failed
    logged,           \* the console levels the process reported failures at
    exitCode,         \* << >> while the process runs, then <<its exit status>>
    artifact,         \* deployment_info.json: << >> when the file does not exist
    chainNonce        \* the account's transaction count on the node

contractVars == <<owner, totalReceived, balances, receiverContract, totalTransfers,
                  eth, log, trace, last>>
driverVars == <<script, pc, env, nonce, receipts, sent, rpcs, failed, logged,
                exitCode, artifact, chainNonce>>
vars == <<contractVars, driverVars>>

\* ------------------------------------------------------------ events
FundsReceived(from, amount) == <<"FundsReceived", from, amount>>
BalanceUpdated(account, newBalance) == <<"BalanceUpdated", account, newBalance>>
InternalTransferExecuted(from, to, amount) == <<"InternalTransferExecuted", from, to, amount>>
ContractCallMade(from, to, value) == <<"ContractCallMade", from, to, value>>
InternalTransfer(from, to, amount) == <<"InternalTransfer", from, to, amount>>

\* ------------------------------------------------------------ execution state
\* The part of the state a transaction can change.
Cur ==
    [eth |-> eth, balances |-> balances, totalReceived |-> totalReceived,
     totalTransfers |-> totalTransfers, log |-> << >>, trace |-> << >>]

Ok(s) == [ok |-> TRUE, err |-> "", s |-> s]
Revert(s, reason) == [ok |-> FALSE, err |-> reason, s |-> s]

Emit(s, e) == [s EXCEPT !.log = Append(@, e), !.trace = Append(@, <<"emit", e[1]>>)]
Step(s, t) == [s EXCEPT !.trace = Append(@, t)]

\* Value moved by a call: msg.value leaves the caller and reaches the callee.
MoveEth(s, from, to, v) ==
    LET e1 == [s.eth EXCEPT ![from] = @ - v]
    IN  [s EXCEPT !.eth = [e1 EXCEPT ![to] = @ + v]]

\* Faulty variant of Credit: the amount is added twice.
CreditTwice(s, account, amount) == [s EXCEPT !.balances[account] = @ + amount + amount]
\* balances[account] += amount
Credit(s, account, amount) == [s EXCEPT !.balances[account] = @ + amount]
\* balances[account] -= amount
Debit(s, account, amount) == [s EXCEPT !.balances[account] = @ - amount]
\* Faulty variant of AddReceived: the counter counts deposits, not their value.
AddReceivedOne(s, amount) == [s EXCEPT !.totalReceived = @ + 1]
\* totalReceived += amount
AddReceived(s, amount) == [s EXCEPT !.totalReceived = @ + amount]

RECURSIVE Call(_, _, _, _, _, _)
RECURSIVE MalloryFallback(_, _, _)
RECURSIVE transferTo(_, _, _, _, _, _)
RECURSIVE transferWithValue(_, _, _, _, _, _, _)

\* ------------------------------------------------------------ ReceiverContract
\* function receiveFunds() external payable, called by `sender` with msg.value `value`.
receiveFunds(s, sender, value) ==
    IF s.eth[sender] < value THEN Revert(s, "insufficient funds for call")
    ELSE LET s0 == Step(MoveEth(s, sender, ReceiverContract, value),
                        <<"enter", "receiveFunds", sender>>)
         IN  IF ~(value > 0) THEN Revert(s, "No funds sent")
             ELSE LET s1 == Credit(s0, sender, value)
                      s2 == AddReceived(s1, value)
                      s3 == Emit(s2, FundsReceived(sender, value))
                      s4 == Emit(s3, BalanceUpdated(sender, s3.balances[sender]))
                  IN  Ok(Step(s4, <<"exit", "receiveFunds", sender>>))

\* receive() external payable: the value has already reached the contract.
receive(s, sender, value) ==
    LET s0 == Step(s, <<"enter", "receive", sender>>)
        s1 == Credit(s0, sender, value)
        s2 == AddReceived(s1, value)
        s3 == Emit(s2, FundsReceived(sender, value))
        s4 == Emit(s3, BalanceUpdated(sender, s3.balances[sender]))
    IN  Ok(Step(s4, <<"exit", "receive", sender>>))

\* ContractCaller: receive() external payable {}
callerReceive(s, sender, value) == Ok(s)

\* `to.call{value: value}("")` made by contract `from`, all gas forwarded.
\* cb is the behaviour of Mallory's code, d the callback depth reached so far.
Call(s, from, to, value, cb, d) ==
    IF s.eth[from] < value THEN Revert(s, "call failed")
    ELSE LET s1 == Step(MoveEth(s, from, to, value), <<"call", from, to>>)
             r == CASE to = ReceiverContract -> receive(s1, from, value)
                    [] to = ContractCaller -> callerReceive(s1, from, value)
                    [] to = Mallory -> MalloryFallback(s1, cb, d)
                    [] OTHER -> Ok(s1)
         IN  IF r.ok THEN r ELSE Revert(s, r.err)

\* Faulty variant of transferTo: a failed probe returns without undoing the debit and
\* the credit.
transferToKeepsBookkeeping(s, sender, recipient, amount, cb, d) ==
    IF ~(s.balances[sender] >= amount) THEN Revert(s, "Insufficient balance")
    ELSE LET s1 == Debit(s, sender, amount)
             s2 == Credit(s1, recipient, amount)
             r == Call(s2, ReceiverContract, recipient, 0, cb, d)
         IN  IF ~r.ok THEN Revert(s2, "Transfer failed")
             ELSE LET s3 == Emit(r.s, InternalTransferExecuted(sender, recipient, amount))
                      s4 == Emit(s3, BalanceUpdated(sender, s3.balances[sender]))
                  IN  Ok(Emit(s4, BalanceUpdated(recipient, s4.balances[recipient])))

\* Faulty variant of transferTo: the recipient is probed before the debit and
\* the credit.
transferToProbeFirst(s, sender, recipient, amount, cb, d) ==
    IF ~(s.balances[sender] >= amount) THEN Revert(s, "Insufficient balance")
    ELSE LET s0 == Step(s, <<"enter", "transferTo", sender>>)
             r == Call(s0, ReceiverContract, recipient, 0, cb, d)
         IN  IF ~r.ok THEN Revert(s, "Transfer failed")
             ELSE LET s1 == Step(Debit(r.s, sender, amount), <<"debit", sender>>)
                      s2 == Step(Credit(s1, recipient, amount), <<"credit", recipient>>)
                      s3 == Emit(s2, InternalTransferExecuted(sender, recipient, amount))
                      s4 == Emit(s3, BalanceUpdated(sender, s3.balances[sender]))
                      s5 == Emit(s4, BalanceUpdated(recipient, s4.balances[recipient]))
                  IN  Ok(Step(s5, <<"exit", "transferTo", sender>>))

\* function transferTo(address payable recipient, uint256 amount) external
transferTo(s, sender, recipient, amount, cb, d) ==
    IF ~(s.balances[sender] >= amount) THEN Revert(s, "Insufficient balance")
    ELSE LET s0 == Step(s, <<"enter", "transferTo", sender>>)
             s1 == Step(Debit(s0, sender, amount), <<"debit", sender>>)
             s2 == Step(Credit(s1, recipient, amount), <<"credit", recipient>>)
             r == Call(s2, ReceiverContract, recipient, 0, cb, d)
         IN  IF ~r.ok THEN Revert(s, "Transfer failed")
             ELSE LET s3 == Emit(r.s, InternalTransferExecuted(sender, recipient, amount))
                      s4 == Emit(s3, BalanceUpdated(sender, s3.balances[sender]))
                      s5 == Emit(s4, BalanceUpdated(recipient, s4.balances[recipient]))
                  IN  Ok(Step(s5, <<"exit", "transferTo", sender>>))

\* function transferWithValue(address payable recipient, uint256 amount) external payable
transferWithValue(s, sender, value, recipient, amount, cb, d) ==
    IF s.eth[sender] < value THEN Revert(s, "insufficient funds for call")
    ELSE LET s0 == Step(MoveEth(s, sender, ReceiverContract, value),
                        <<"enter", "transferWithValue", sender>>)
         IN  IF ~(s0.eth[ReceiverContract] >= amount)
             THEN Revert(s, "Contract has insufficient balance")
             ELSE LET r == Call(s0, ReceiverContract, recipient, amount, cb, d)
                  IN  IF ~r.ok THEN Revert(s, "ETH transfer failed")
                      ELSE LET s1 == Emit(r.s, InternalTransferExecuted(
                                                   ReceiverContract, recipient, amount))
                           IN  Ok(Step(s1, <<"exit", "transferWithValue", sender>>))

\* `payable(to).transfer(amount)`: 2300 gas reach the recipient, which is too
\* little for a callee to write storage or call on; failure reverts the caller.
Transfer(s, from, to, amount) ==
    IF s.eth[from] < amount THEN Revert(s, "")
    ELSE IF to = ReceiverContract THEN Revert(s, "")
    ELSE Ok(Step(MoveEth(s, from, to, amount), <<"transfer", from, to>>))

\* Faulty variant of withdraw: the owner check is missing.
withdrawByAnyone(s, sender, amount) ==
    LET r == Transfer(s, ReceiverContract, owner, amount)
    IN  IF ~r.ok THEN Revert(s, r.err) ELSE Ok(r.s)

\* function withdraw(uint256 amount) external
withdraw(s, sender, amount) ==
    IF ~(sender = owner) THEN Revert(s, "Only owner can withdraw")
    ELSE LET s0 == Step(s, <<"enter", "withdraw", sender>>)
             r == Transfer(s0, ReceiverContract, owner, amount)
         IN  IF ~r.ok THEN Revert(s, r.err)
             ELSE Ok(Step(r.s, <<"exit", "withdraw", sender>>))

\* function getBalance() external view
getBalance == eth[ReceiverContract]
\* function getUserBalance(address user) external view
getUserBalance(user) == balances[user]

\* ------------------------------------------------------------ ContractCaller
\* Faulty variant of callReceiverContract: totalTransfers is not incremented.
callReceiverContractUncounted(s, sender, value) ==
    IF s.eth[sender] < value THEN Revert(s, "insufficient funds for call")
    ELSE LET s0 == MoveEth(s, sender, ContractCaller, value)
         IN  IF ~(value > 0) THEN Revert(s, "Must send some ETH")
             ELSE LET r == receiveFunds(s0, ContractCaller, value)
                  IN  IF ~r.ok THEN Revert(s, r.err)
                      ELSE Ok(Emit(r.s, ContractCallMade(sender, receiverContract, value)))

\* Faulty variant of callReceiverContract: msg.value is not checked.
callReceiverContractAcceptsZero(s, sender, value) ==
    IF s.eth[sender] < value THEN Revert(s, "insufficient funds for call")
    ELSE LET s0 == Step(MoveEth(s, sender, ContractCaller, value),
                        <<"enter", "callReceiverContract", sender>>)
             r == receiveFunds(s0, ContractCaller, value)
         IN  IF ~r.ok THEN Revert(s, r.err)
             ELSE LET s1 == [r.s EXCEPT !.totalTransfers = @ + 1]
                      s2 == Emit(s1, ContractCallMade(sender, receiverContract, value))
                  IN  Ok(Step(s2, <<"exit", "callReceiverContract", sender>>))

\* Faulty variant of callReceiverContract: the Relay forwards its whole native
\* balance, not msg.value.
callReceiverContractForwardsAll(s, sender, value) ==
    IF s.eth[sender] < value THEN Revert(s, "insufficient funds for call")
    ELSE LET s0 == Step(MoveEth(s, sender, ContractCaller, value),
                        <<"enter", "callReceiverContract", sender>>)
         IN  IF ~(value > 0) THEN Revert(s, "Must send some ETH")
             ELSE LET r == receiveFunds(s0, ContractCaller, s0.eth[ContractCaller])
                  IN  IF ~r.ok THEN Revert(s, r.err)
                      ELSE LET s1 == [r.s EXCEPT !.totalTransfers = @ + 1]
                               s2 == Emit(s1, ContractCallMade(sender, receiverContract, value))
                           IN  Ok(Step(s2, <<"exit", "callReceiverContract", sender>>))

\* function callReceiverContract() external payable
callReceiverContract(s, sender, value) ==
    IF s.eth[sender] < value THEN Revert(s, "insufficient funds for call")
    ELSE LET s0 == Step(MoveEth(s, sender, ContractCaller, value),
                        <<"enter", "callReceiverContract", sender>>)
         IN  IF ~(value > 0) THEN Revert(s, "Must send some ETH")
             ELSE LET r == receiveFunds(s0, ContractCaller, value)
                  IN  IF ~r.ok THEN Revert(s, r.err)
                      ELSE LET s1 == [r.s EXCEPT !.totalTransfers = @ + 1]
                               s2 == Emit(s1, ContractCallMade(sender, receiverContract, value))
                           IN  Ok(Step(s2, <<"exit", "callReceiverContract", sender>>))

\* Faulty variant of triggerInternalTransfer: the Ledger sees the driver as the caller.
triggerInternalTransferAsDriver(s, sender, recipient, amount, cb, d) ==
    LET s0 == Step(s, <<"enter", "triggerInternalTransfer", sender>>)
        r == transferTo(s0, sender, recipient, amount, cb, d)
    IN  IF ~r.ok THEN Revert(s, r.err)
        ELSE LET s1 == Emit(r.s, InternalTransfer(receiverContract, recipient, amount))
             IN  Ok(Step(s1, <<"exit", "triggerInternalTransfer", sender>>))

\* function triggerInternalTransfer(address payable recipient, uint256 amount) external
triggerInternalTransfer(s, sender, recipient, amount, cb, d) ==
    LET s0 == Step(s, <<"enter", "triggerInternalTransfer", sender>>)
        r == transferTo(s0, ContractCaller, recipient, amount, cb, d)
    IN  IF ~r.ok THEN Revert(s, r.err)
        ELSE LET s1 == Emit(r.s, InternalTransfer(receiverContract, recipient, amount))
             IN  Ok(Step(s1, <<"exit", "triggerInternalTransfer", sender>>))

\* function getReceiverBalance() external view
getReceiverBalance == getBalance

\* ------------------------------------------------------------ Mallory
\* The code run by the recipient contract when it is called with empty
\* calldata.  A failure of the call it makes makes it fail too.
MalloryFallback(s, cb, d) ==
    IF d >= MaxDepth THEN Ok(s)
    ELSE CASE cb.op = "accept" -> Ok(s)
           [] cb.op = "reject" -> Revert(s, "rejected")
           [] cb.op = "receiveFunds" -> receiveFunds(s, Mallory, cb.amt)
           [] cb.op = "transferTo" -> transferTo(s, Mallory, cb.to, cb.amt, cb, d + 1)
           [] cb.op = "transferWithValue" ->
                  transferWithValue(s, Mallory, 0, cb.to, cb.amt, cb, d + 1)
           [] cb.op = "callReceiverContract" -> callReceiverContract(s, Mallory, cb.amt)

\* ------------------------------------------------------------ driver scripts
Envs == [RPC_URL : BOOLEAN, PRIVATE_KEY : BOOLEAN]

\* How far a transaction gets: getGasPrice throws, signTransaction throws,
\* sendSignedTransaction throws with the transaction not mined ("rejected")
\* or mined and failed ("reverted"), or it resolves with the receipt.
TxOutcomes == {"getGasPrice", "signTransaction", "rejected", "reverted", "receipt"}
GasEstimates == {"estimated", "failed"}

\* What trace_transaction can do: throw, resolve with something that is not
\* an array, with an array of trace objects, or with an array holding an
\* entry that is null (`t.type` then throws inside the try block).
TraceResults == {"threw", "notArray", "array", "arrayWithNull"}
\* What debug_traceTransaction can do: throw, resolve with an object with
\* structLogs, with anything else JSON.stringify prints, or with undefined
\* (`JSON.stringify(undefined).slice` then throws inside the try block).
DebugResults == {"threw", "structLogs", "raw", "undefined"}

\* The address of the contract created by the account's transaction number n.
ContractAddress(n) == <<Deployer, n>>
valueInWei == "125 gwei"

\* tx built, gas estimated, signed and sent (deploy_contracts.js 117-147 and
\* the call script 252-284).  `.catch` turns a failed estimateGas into the
\* default gas; every other failure is thrown to the caller.
Submit(tx, gasEstimate, o) ==
    IF o = "getGasPrice"
    THEN [ok |-> FALSE, failed |-> {"getGasPrice"}, warned |-> FALSE,
          sent |-> << >>, mined |-> FALSE]
    ELSE LET estimate == IF gasEstimate = "failed" THEN {"estimateGas"} ELSE {}
             signed == [tx EXCEPT !.gas = IF gasEstimate = "failed" THEN "default"
                                          ELSE "estimate"]
         IN  IF o = "signTransaction"
             THEN [ok |-> FALSE, failed |-> estimate \cup {"signTransaction"},
                   warned |-> estimate # {}, sent |-> << >>, mined |-> FALSE]
             ELSE [ok |-> o = "receipt",
                   failed |-> estimate \cup (IF o = "receipt" THEN {}
                                             ELSE {"sendSignedTransaction"}),
                   warned |-> estimate # {},
                   sent |-> <<signed>>,
                   mined |-> o \in {"receipt", "reverted"}]

\* const deployContract = async (account, nonce, abi, bytecode, constructorArgs = [])
deployContract(n, contract, constructorArgs, gasEstimate, o) ==
    LET tx == [from |-> Deployer, to |-> << >>, data |-> contract,
               args |-> constructorArgs, value |-> "0", gas |-> "default", nonce |-> n]
        r == Submit(tx, gasEstimate, o)
    IN  [ok |-> r.ok, failed |-> r.failed, warned |-> r.warned, sent |-> r.sent,
         mined |-> r.mined,
         receipt |-> [contractAddress |-> ContractAddress(n), to |-> << >>]]

\* No driver process has run.
DriverInit ==
    /\ script = "none"
    /\ pc = "idle"
    /\ env = [RPC_URL |-> FALSE, PRIVATE_KEY |-> FALSE]
    /\ nonce = 0
    /\ receipts = << >>
    /\ sent = << >>
    /\ rpcs = << >>
    /\ failed = {}
    /\ logged = {}
    /\ exitCode = << >>
    /\ artifact = << >>
    /\ chainNonce = 0

\* ------------------------------------------------------------ transactions
InitWith(funds) ==
    /\ owner = Deployer                       \* constructor() { owner = msg.sender; }
    /\ totalReceived = 0
    /\ balances = [a \in Accounts |-> 0]
    /\ receiverContract = ReceiverContract    \* constructor(address _receiverAddress)
    /\ totalTransfers = 0
    /\ eth \in funds
    /\ log = << >>
    /\ trace = << >>
    /\ last = [op |-> "constructor", sender |-> Deployer, to |-> ReceiverContract,
               amount |-> 0, value |-> 0, cb |-> Accept]
    /\ DriverInit

Init == InitWith(InitialFunds)

\* A transaction that succeeds commits the state its execution produced and
\* is recorded in `last`; one that fails is reverted whole and leaves every
\* variable as it was.
Commit(op, sender, to, amount, value, cb, r) ==
    /\ r.ok
    /\ eth' = r.s.eth
    /\ balances' = r.s.balances
    /\ totalReceived' = r.s.totalReceived
    /\ totalTransfers' = r.s.totalTransfers
    /\ log' = r.s.log
    /\ trace' = r.s.trace
    /\ last' = [op |-> op, sender |-> sender, to |-> to, amount |-> amount,
                value |-> value, cb |-> cb]
    /\ UNCHANGED <<owner, receiverContract>>
    /\ UNCHANGED driverVars

\* Mallory's code runs only when Mallory is the recipient of a call.
CallbacksOf(recipient) == IF recipient = Mallory THEN Callbacks ELSE {Accept}

Deposit ==
    \E sender \in Drivers, value \in Amounts :
        /\ eth[sender] >= value
        /\ Commit("receiveFunds", sender, ReceiverContract, value, value, Accept,
                  receiveFunds(Cur, sender, value))

BareReceive ==
    \E sender \in Drivers, value \in Amounts :
        /\ eth[sender] >= value
        /\ Commit("receive", sender, ReceiverContract, value, value, Accept,
                  Call(Cur, sender, ReceiverContract, value, Accept, 0))

TransferTo ==
    \E sender \in Drivers, recipient \in Accounts, amount \in Amounts :
        \E cb \in CallbacksOf(recipient) :
            /\ recipient \in Accounts
            /\ Commit("transferTo", sender, recipient, amount, 0, cb,
                      transferTo(Cur, sender, recipient, amount, cb, 0))

TransferWithValue ==
    \E sender \in Drivers, recipient \in Accounts, amount \in Amounts, value \in 0..1 :
        \E cb \in CallbacksOf(recipient) :
            /\ eth[sender] >= value
            /\ value > 0 => cb = Accept
            /\ Commit("transferWithValue", sender, recipient, amount, value, cb,
                      transferWithValue(Cur, sender, value, recipient, amount, cb, 0))

Withdraw ==
    \E sender \in Drivers, amount \in Amounts :
        /\ amount \in Amounts
        /\ Commit("withdraw", sender, owner, amount, 0, Accept,
                  withdraw(Cur, sender, amount))

CallReceiverContract ==
    \E sender \in Drivers, value \in Amounts :
        /\ eth[sender] >= value
        /\ Commit("callReceiverContract", sender, receiverContract, value, value, Accept,
                  callReceiverContract(Cur, sender, value))

TriggerInternalTransfer ==
    \E sender \in Drivers, recipient \in Accounts, amount \in Amounts :
        \E cb \in CallbacksOf(recipient) :
            /\ recipient \in Accounts
            /\ Commit("triggerInternalTransfer", sender, recipient, amount, 0, cb,
                      triggerInternalTransfer(Cur, sender, recipient, amount, cb, 0))

\* A plain value transfer to the Relay.
CallerReceive ==
    \E sender \in Drivers, value \in Amounts :
        /\ eth[sender] >= value
        /\ Commit("callerReceive", sender, ContractCaller, value, value, Accept,
                  Call(Cur, sender, ContractCaller, value, Accept, 0))

\* The two counters grow without limit (value that left the Ledger can be
\* deposited again); the model follows them up to MaxReceived and MaxTransfers.
Capped ==
    /\ totalReceived <= MaxReceived
    /\ totalTransfers <= MaxTransfers

Next ==
    \/ Deposit /\ Capped'
    \/ BareReceive /\ Capped'
    \/ TransferTo /\ Capped'
    \/ TransferWithValue /\ Capped'
    \/ Withdraw /\ Capped'
    \/ CallReceiverContract /\ Capped'
    \/ TriggerInternalTransfer /\ Capped'
    \/ CallerReceive /\ Capped'

Spec == Init /\ [][Next]_vars

\* Sequences of deposits only: receiveFunds, the bare receive, and the
\* Relay's forwarding.  The native supply bounds them.
NextDeposits ==
    \/ Deposit
    \/ BareReceive
    \/ CallReceiverContract

InitDeposits == InitWith(DepositFunds)

SpecDeposits == InitDeposits /\ [][NextDeposits]_vars

\* ------------------------------------------------------------ driver processes
\* A process starts: the per-process state is fresh.
Started(s, e) ==
    /\ script' = s
    /\ env' = e
    /\ nonce' = 0
    /\ receipts' = << >>
    /\ sent' = << >>
    /\ rpcs' = << >>

\* The process goes on to position `next`; `steps` failed on the way and
\* were reported at `levels`.
Goes(next, steps, levels) ==
    /\ pc' = next
    /\ exitCode' = << >>
    /\ failed' = failed \cup steps
    /\ logged' = logged \cup levels

\* The process ends with exit status `code`.
Exits(code, steps, levels) ==
    /\ pc' = "exited"
    /\ exitCode' = <<code>>
    /\ failed' = failed \cup steps
    /\ logged' = logged \cup levels

\* Faulty variant of DeployEnvCheck: PRIVATE_KEY is not checked.
DeployEnvCheckRpcOnly ==
    /\ pc \in {"idle", "exited"}
    /\ \E e \in Envs :
           /\ Started("deploy", e)
           /\ IF ~e.RPC_URL
              THEN pc' = "exited" /\ exitCode' = <<1>>
                   /\ failed' = {"RPC_URL"} /\ logged' = {"error"}
              ELSE pc' = "compile" /\ exitCode' = << >>
                   /\ failed' = {} /\ logged' = {}
    /\ UNCHANGED <<artifact, chainNonce, contractVars>>

\* deploy_contracts.js, lines 9-21: `if (!RPC_URL) {...}  if (!PRIVATE_KEY) {...}`
DeployEnvCheck ==
    /\ pc \in {"idle", "exited"}
    /\ \E e \in Envs :
           /\ Started("deploy", e)
           /\ IF ~e.RPC_URL
              THEN pc' = "exited" /\ exitCode' = <<1>>
                   /\ failed' = {"RPC_URL"} /\ logged' = {"error"}
              ELSE IF ~e.PRIVATE_KEY
              THEN pc' = "exited" /\ exitCode' = <<1>>
                   /\ failed' = {"PRIVATE_KEY"} /\ logged' = {"error"}
              ELSE pc' = "compile" /\ exitCode' = << >>
                   /\ failed' = {} /\ logged' = {}
    /\ UNCHANGED <<artifact, chainNonce, contractVars>>

\* deploy_contracts.js, lines 26-104: the sources are read and compiled.  A
\* readFileSync that throws and `throw new Error('Compilation failed ...')`
\* are uncaught and end the process with status 1; a contract missing from
\* the output is reported and followed by process.exit(1).
Compile ==
    /\ pc = "compile"
    /\ \E o \in {"compiled", "threw", "missing"} :
           CASE o = "compiled" -> Goes("main", {}, {})
             [] o = "threw" -> Exits(1, {"compile"}, {"uncaught"})
             [] o = "missing" -> Exits(1, {"compile"}, {"error"})
    /\ UNCHANGED <<script, env, nonce, receipts, sent, rpcs, artifact, chainNonce,
                   contractVars>>

\* main, lines 152-170: the account, its balance, the network type and
\* `let nonce = await web3.eth.getTransactionCount(account.address, 'pending')`.
Main ==
    /\ pc = "main"
    /\ \E ok \in BOOLEAN :
           IF ok THEN nonce' = chainNonce /\ Goes("deployReceiver", {}, {})
           ELSE nonce' = nonce /\ Exits(1, {"setup"}, {"error"})
    /\ UNCHANGED <<script, env, receipts, sent, rpcs, artifact, chainNonce, contractVars>>

\* What a deployment leaves behind, whether it returned a receipt or threw
\* into main's catch block (console.error, process.exit(1)).
Deployed(r, next) ==
    /\ sent' = sent \o r.sent
    /\ chainNonce' = chainNonce + (IF r.mined THEN 1 ELSE 0)
    /\ IF r.ok
       THEN /\ receipts' = Append(receipts, r.receipt)
            /\ nonce' = IF next = "deployCaller" THEN nonce + 1 ELSE nonce
            /\ Goes(next, r.failed, IF r.warned THEN {"warn"} ELSE {})
       ELSE /\ receipts' = receipts
            /\ nonce' = nonce
            /\ Exits(1, r.failed, {"error"} \cup (IF r.warned THEN {"warn"} ELSE {}))

\* main, lines 172-190: deploy ReceiverContract, then `nonce++`.
DeployReceiver ==
    /\ pc = "deployReceiver"
    /\ \E g \in GasEstimates, o \in TxOutcomes :
           Deployed(deployContract(nonce, "ReceiverContract", << >>, g, o), "deployCaller")
    /\ UNCHANGED <<script, env, rpcs, artifact, contractVars>>

\* const receiverAddress = receiverReceipt.contractAddress;
receiverAddress == receipts[1].contractAddress

\* Faulty variant of DeployCaller: the Relay is deployed without the Ledger's
\* address.
DeployCallerWithoutAddress ==
    /\ pc = "deployCaller"
    /\ \E g \in GasEstimates, o \in TxOutcomes :
           Deployed(deployContract(nonce, "ContractCaller", << >>, g, o), "write")
    /\ UNCHANGED <<script, env, rpcs, artifact, contractVars>>

\* main, lines 192-208: deploy ContractCaller with [receiverAddress].
DeployCaller ==
    /\ pc = "deployCaller"
    /\ \E g \in GasEstimates, o \in TxOutcomes :
           Deployed(deployContract(nonce, "ContractCaller", <<receiverAddress>>, g, o),
                    "write")
    /\ UNCHANGED <<script, env, rpcs, artifact, contractVars>>

\* main, lines 210-239: deployment_info.json is written; main returns and the
\* process ends with status 0.  A writeFileSync that throws is caught.
WriteArtifact ==
    /\ pc = "write"
    /\ \E ok \in BOOLEAN :
           IF ok
           THEN /\ artifact' = <<[receiver |-> [address |-> receiverAddress],
                                  caller |-> [address |-> receipts[2].contractAddress]]>>
                /\ Exits(0, {}, {})
           ELSE /\ artifact' = artifact
                /\ Exits(1, {"writeFileSync"}, {"error"})
    /\ UNCHANGED <<script, env, nonce, receipts, sent, rpcs, chainNonce, contractVars>>

\* The call script, lines 116-122: `if (!RPC_URL || !PRIVATE_KEY) {...}`
CallEnvCheck ==
    /\ pc \in {"idle", "exited"}
    /\ \E e \in Envs :
           /\ Started("call", e)
           /\ IF ~e.RPC_URL \/ ~e.PRIVATE_KEY
              THEN pc' = "exited" /\ exitCode' = <<1>>
                   /\ failed' = {"RPC_URL or PRIVATE_KEY"} /\ logged' = {"error"}
              ELSE pc' = "load" /\ exitCode' = << >>
                   /\ failed' = {} /\ logged' = {}
    /\ UNCHANGED <<artifact, chainNonce, contractVars>>

\* The call script, lines 128-141: without deployment_info.json the script
\* reports it and exits with 1; reading or parsing it can throw, uncaught.
LoadArtifact ==
    /\ pc = "load"
    /\ IF artifact = << >>
       THEN Exits(1, {"deployment_info.json"}, {"error"})
       ELSE \E ok \in BOOLEAN :
                IF ok THEN Goes("callReceiver", {}, {})
                ELSE Exits(1, {"readFileSync"}, {"uncaught"})
    /\ UNCHANGED <<script, env, nonce, receipts, sent, rpcs, artifact, chainNonce,
                   contractVars>>

\* const callerAddress = deploymentInfo.caller.address;
callerAddress == IF artifact = << >> THEN << >> ELSE artifact[1].caller.address

\* callReceiver, lines 238-289: the callReceiverContract() transaction.  Any
\* throw lands in the catch block: console.error, process.exit(1).
CallReceiver ==
    /\ pc = "callReceiver"
    /\ \E g \in GasEstimates, o \in TxOutcomes :
           LET tx == [from |-> Deployer, to |-> callerAddress,
                      data |-> "callReceiverContract()", args |-> << >>,
                      value |-> valueInWei, gas |-> "default", nonce |-> chainNonce]
               r == Submit(tx, g, o)
           IN  /\ sent' = sent \o r.sent
               /\ chainNonce' = chainNonce + (IF r.mined THEN 1 ELSE 0)
               /\ IF r.ok
                  THEN /\ receipts' = <<[contractAddress |-> << >>, to |-> callerAddress]>>
                       /\ Goes("trace_transaction", r.failed,
                               IF r.warned THEN {"warn"} ELSE {})
                  ELSE /\ receipts' = receipts
                       /\ Exits(1, r.failed,
                                {"error"} \cup (IF r.warned THEN {"warn"} ELSE {}))
    /\ UNCHANGED <<script, env, nonce, rpcs, artifact, contractVars>>

\* inspectInternalTransactions, lines 174-203: the first try block.  An array
\* whose entries can be read ends the function (`return`), callReceiver
\* resolves and the process ends with status 0; a throw inside the block,
\* from the RPC or from reading an entry, is caught and warned about.
TraceTransaction ==
    /\ pc = "trace_transaction"
    /\ \E res \in TraceResults :
           /\ rpcs' = Append(rpcs, [method |-> "trace_transaction", result |-> res])
           /\ CASE res = "array" -> Exits(0, {}, {})
                [] res = "notArray" -> Goes("debug_traceTransaction", {}, {})
                [] res = "threw" ->
                       Goes("debug_traceTransaction", {"trace_transaction"}, {"warn"})
                [] res = "arrayWithNull" ->
                       Goes("debug_traceTransaction", {"trace entries"}, {"warn"})
    /\ UNCHANGED <<script, env, nonce, receipts, sent, artifact, chainNonce, contractVars>>

\* inspectInternalTransactions, lines 206-234: the second try block; whatever
\* happens in it the function returns, and the process ends with status 0.
DebugTraceTransaction ==
    /\ pc = "debug_traceTransaction"
    /\ \E res \in DebugResults :
           /\ rpcs' = Append(rpcs, [method |-> "debug_traceTransaction", result |-> res])
           /\ CASE res \in {"structLogs", "raw"} -> Exits(0, {}, {})
                [] res = "threw" -> Exits(0, {"debug_traceTransaction"}, {"warn"})
                [] res = "undefined" -> Exits(0, {"debug trace"}, {"warn"})
    /\ UNCHANGED <<script, env, nonce, receipts, sent, artifact, chainNonce, contractVars>>

\* The scripts are started while the account's transaction count leaves room
\* for the transactions they send.
NextDrivers ==
    \/ DeployEnvCheck /\ chainNonce + 2 <= MaxNonce
    \/ Compile
    \/ Main
    \/ DeployReceiver
    \/ DeployCaller
    \/ WriteArtifact
    \/ CallEnvCheck /\ chainNonce + 1 <= MaxNonce
    \/ LoadArtifact
    \/ CallReceiver
    \/ TraceTransaction
    \/ DebugTraceTransaction

InitDrivers == InitWith({Funds(MaxAmount, 0)})

SpecDrivers == InitDrivers /\ [][NextDrivers]_vars

\* ------------------------------------------------------------ types
Sum(f) == f[Deployer] + f[Mallory] + f[ContractCaller] + f[ReceiverContract]

TypeOK ==
    /\ owner \in Accounts
    /\ totalReceived \in Nat
    /\ balances \in [Accounts -> Nat]
    /\ eth \in [Accounts -> Nat]
    /\ totalTransfers \in Nat
    /\ \E f \in DepositFunds : Sum(eth) = Sum(f)
    /\ totalReceived <= MaxReceived

\* ------------------------------------------------------------ claims

\* The inputs an operation can be submitted with in the current state.
Funded(sender, value) == eth[sender] >= value

\* C1: in every reachable state the sum of all ledger-mapping balances is at
\* most the Ledger's custodial pool (its native balance).
C1_SumWithinPool == Sum(balances) <= eth[ReceiverContract]

\* C2: along every sequence of deposits only (receiveFunds, bare receive,
\* forwarding through the Relay) the per-account balances never add up to
\* more than the custodial pool.
C2_DepositsCovered == getBalance >= Sum([a \in Accounts |-> getUserBalance(a)])

\* Two accounts hold a balance from deposits, one of them through the Relay.
C2_Witness ==
    /\ balances[ContractCaller] > 0
    /\ \E a \in Drivers : balances[a] > 0
    /\ last.op \in {"receiveFunds", "receive", "callReceiverContract"}

\* What a transaction can change, as the variables hold it before (Cur, the
\* state an execution starts from) and in the state an execution produced.
Same(s) ==
    /\ s.eth = eth
    /\ s.balances = balances
    /\ s.totalReceived = totalReceived
    /\ s.totalTransfers = totalTransfers
    /\ s.log = << >>

C3_ZeroRejected ==
    \A s \in Drivers :
        LET r == receiveFunds(Cur, s, 0)
        IN  ~r.ok /\ r.err = "No funds sent" /\ Same(r.s)

C3_PositiveAccepted ==
    \A s \in Drivers, n \in 1..MaxAmount :
        Funded(s, n) => receiveFunds(Cur, s, n).ok

C3_Effect ==
    last'.op = "receiveFunds" =>
        LET s == last'.sender
            n == last'.amount
        IN  /\ n > 0
            /\ balances' = [balances EXCEPT ![s] = @ + n]
            /\ totalReceived' = totalReceived + n
            /\ eth'[ReceiverContract] = eth[ReceiverContract] + n
            /\ eth'[s] = eth[s] - n
            /\ log' = <<FundsReceived(s, n), BalanceUpdated(s, balances[s] + n)>>

\* C3: deposit (receiveFunds) of 0 always fails with "No funds sent"
\* (InvalidAmount) and changes nothing; a deposit of n > 0 by s succeeds and
\* in one step adds exactly n to balances[s], to totalReceived and to the
\* pool, leaves every other balance alone, and emits FundsReceived(s, n)
\* followed by BalanceUpdated(s, new balance).
C3_Deposit == [](C3_ZeroRejected /\ C3_PositiveAccepted) /\ [][C3_Effect]_vars

\* A deposit by an account that already had a balance.
C3_Witness ==
    /\ last.op = "receiveFunds"
    /\ last.amount > 0
    /\ balances[last.sender] > last.amount
    /\ log = <<FundsReceived(last.sender, last.amount),
               BalanceUpdated(last.sender, balances[last.sender])>>

C9_SameEffect(a, b) ==
    /\ a.ok = b.ok
    /\ a.s.eth = b.s.eth
    /\ a.s.balances = b.s.balances
    /\ a.s.totalReceived = b.s.totalReceived
    /\ a.s.log = b.s.log

C9_Step ==
    last'.op \in {"receive", "receiveFunds"} =>
        C9_SameEffect(receiveFunds(Cur, last'.sender, last'.amount),
                      Call(Cur, last'.sender, ReceiverContract, last'.amount, Accept, 0))

\* C9: a value transfer to the Ledger with empty calldata (receive) behaves
\* as deposit (receiveFunds) does, for every sender and every amount, 0
\* included: same outcome, same balances, totalReceived, pool and events.
C9_ReceiveIsDeposit == [][C9_Step]_vars

\* The balances after a successful transferTo(b, amt) called by a.
Moved(a, b, amt) ==
    LET debited == [balances EXCEPT ![a] = @ - amt]
    IN  [debited EXCEPT ![b] = @ + amt]

C4_Step ==
    last'.op = "transferTo" =>
        /\ balances' = Moved(last'.sender, last'.to, last'.amount)
        /\ eth'[ReceiverContract] = eth[ReceiverContract]
        /\ totalReceived' = totalReceived

\* C4: a successful transferTo(b, amt) called by a, for every a and b (a = b
\* and a recipient contract that calls back included), debits balances[a] by
\* amt and credits balances[b] by amt, so that their sum is kept, and leaves
\* the pool, totalReceived and every other balance unchanged.
C4_TransferConserves == [][C4_Step]_vars

C5_TransferTo ==
    \A a \in Drivers, b \in Accounts, amt \in Amounts :
        \A cb \in CallbacksOf(b) :
            LET r == transferTo(Cur, a, b, amt, cb, 0)
            IN  /\ ~r.ok => Same(r.s)
                /\ balances[a] < amt => ~r.ok /\ r.err = "Insufficient balance"
                /\ balances[a] >= amt /\ cb = Reject => ~r.ok
                /\ balances[a] >= amt /\ ~r.ok => r.err = "Transfer failed"

C5_Others ==
    /\ \A a \in Drivers, n \in Amounts :
            LET r == receiveFunds(Cur, a, n) IN ~r.ok => Same(r.s)
    /\ \A a \in Drivers, b \in Accounts, amt \in Amounts, v \in 0..1 :
            \A cb \in CallbacksOf(b) :
                LET r == transferWithValue(Cur, a, v, b, amt, cb, 0)
                IN  ~r.ok => Same(r.s)
    /\ \A a \in Drivers, amt \in Amounts :
            LET r == withdraw(Cur, a, amt) IN ~r.ok => Same(r.s)

\* C5: every failing Ledger operation leaves balances, pool, totalReceived
\* and the event log as they were; transferTo with balances[a] < amt fails
\* with "Insufficient balance", and a transferTo whose probe of the recipient
\* fails, after the debit and the credit, fails with "Transfer failed" and
\* the debit and the credit are undone.
C5_FailuresRevert == C5_TransferTo /\ C5_Others

\* A holder of the full balance whose transfer is refused by the recipient's
\* code after the bookkeeping.
C5_Witness ==
    \E a \in Drivers :
        /\ balances[a] = MaxAmount
        /\ LET r == transferTo(Cur, a, Mallory, MaxAmount, Reject, 0)
           IN  ~r.ok /\ r.err = "Transfer failed"
        /\ ~transferTo(Cur, a, Mallory, MaxAmount + 1, Accept, 0).ok

C6_OthersRejected ==
    \A c \in Accounts, amt \in Amounts :
        c # owner =>
            LET r == withdraw(Cur, c, amt)
            IN  ~r.ok /\ r.err = "Only owner can withdraw" /\ Same(r.s)

C6_Step ==
    /\ owner' = owner
    /\ last'.op = "withdraw" =>
           /\ last'.sender = owner
           /\ eth'[ReceiverContract] = eth[ReceiverContract] - last'.amount
           /\ eth'[owner] = eth[owner] + last'.amount
           /\ balances' = balances
           /\ totalReceived' = totalReceived
           /\ log' = << >>

\* C6: withdraw succeeds only for the owner set at construction; for any
\* other caller it fails with "Only owner can withdraw" and changes nothing;
\* no operation changes owner; a successful withdraw moves exactly amount
\* from the pool to the owner and changes no ledger balance.
C6_OwnerOnlyWithdraw ==
    [](owner = Deployer /\ C6_OthersRejected) /\ [][C6_Step]_vars

\* The owner has withdrawn value that balances of the ledger still record.
C6_Witness ==
    /\ last.op = "withdraw"
    /\ last.amount > 0
    /\ Sum(balances) > eth[ReceiverContract]

C7_Step ==
    last'.op = "callReceiverContract" =>
        LET d == last'.sender
            n == last'.amount
        IN  /\ n > 0
            /\ eth'[ReceiverContract] = eth[ReceiverContract] + n
            /\ eth'[ContractCaller] = eth[ContractCaller]
            /\ balances' = [balances EXCEPT ![ContractCaller] = @ + n]
            /\ balances'[d] = balances[d]
            /\ totalReceived' = totalReceived + n
            /\ totalTransfers' = totalTransfers + 1
            /\ log' = <<FundsReceived(ContractCaller, n),
                        BalanceUpdated(ContractCaller, balances[ContractCaller] + n),
                        ContractCallMade(d, ReceiverContract, n)>>

C7_Accepted ==
    \A d \in Drivers, n \in 1..MaxAmount :
        Funded(d, n) => callReceiverContract(Cur, d, n).ok

\* C7: a successful callReceiverContract by driver d with value n > 0 adds
\* exactly n to the pool and to the ledger balance of the Relay (not of d),
\* adds 1 to totalTransfers, and emits the Ledger's FundsReceived and
\* BalanceUpdated followed by ContractCallMade(d, Ledger, n).
C7_CallReceiver == []C7_Accepted /\ [][C7_Step]_vars

\* The Relay holds the forwarded MaxAmount on the ledger, the driver nothing.
C7_Witness ==
    /\ last.op = "callReceiverContract"
    /\ last.amount = MaxAmount
    /\ balances[ContractCaller] = MaxAmount
    /\ balances[last.sender] = 0
    /\ totalTransfers = 1

C8_Rejected ==
    \A d \in Drivers, b \in Accounts, amt \in Amounts :
        \A cb \in CallbacksOf(b) :
            balances[ContractCaller] < amt =>
                LET r == triggerInternalTransfer(Cur, d, b, amt, cb, 0)
                IN  ~r.ok /\ r.err = "Insufficient balance" /\ Same(r.s)

C8_Step ==
    last'.op = "triggerInternalTransfer" =>
        LET d == last'.sender
            b == last'.to
            amt == last'.amount
        IN  /\ balances[ContractCaller] >= amt
            /\ SubSeq(trace', 1, 4) =
                   << <<"enter", "triggerInternalTransfer", d>>,
                      <<"enter", "transferTo", ContractCaller>>,
                      <<"debit", ContractCaller>>,
                      <<"credit", b>> >>
            /\ last'.cb = Accept => balances' = Moved(ContractCaller, b, amt)
            /\ balances'[d] < balances[d] =>
                   d = Mallory /\ b = Mallory /\ last'.cb.op = "transferTo"
            /\ log'[Len(log')] = InternalTransfer(ReceiverContract, b, amt)

\* C8: triggerInternalTransfer(recipient, amount) by any driver d makes the
\* Ledger debit the Relay's balance and credit the recipient; it fails, with
\* nothing changed and no InternalTransfer event, whenever the Relay's
\* balance is below amount, whatever d's balance is; and it never debits
\* d's balance: the transferTo it makes runs with the Relay as caller, so
\* with a recipient that does not call back the balances change by exactly
\* that debit and credit, and d's balance goes down in the transaction only
\* when d is the recipient contract and itself calls transferTo meanwhile.
C8_RelayIsDebited == []C8_Rejected /\ [][C8_Step]_vars

\* The Deployer, holding a balance of its own, drove a transfer of the
\* Relay's balance to Mallory.
C8_Witness ==
    /\ last.op = "triggerInternalTransfer"
    /\ last.sender = Deployer
    /\ last.to = Mallory
    /\ last.amount > 0
    /\ balances[Deployer] > 0
    /\ balances[Mallory] = last.amount

C10_Step ==
    last'.op = "transferTo" =>
        log' = <<InternalTransferExecuted(last'.sender, last'.to, last'.amount),
                 BalanceUpdated(last'.sender, balances'[last'.sender]),
                 BalanceUpdated(last'.to, balances'[last'.to])>>

\* C10: a successful transferTo(b, amt) called by a appends to the event
\* log, for every recipient b (the Ledger itself, the Relay and a contract
\* that calls back included), InternalTransferExecuted(a, b, amt), then
\* BalanceUpdated for a, then BalanceUpdated for b, and nothing else.
C10_TransferEvents == [][C10_Step]_vars

C11_Rejected ==
    \A a \in Drivers, b \in Accounts, amt \in Amounts, v \in 0..1 :
        \A cb \in CallbacksOf(b) :
            Funded(a, v) =>
                LET r == transferWithValue(Cur, a, v, b, amt, cb, 0)
                IN  /\ eth[ReceiverContract] + v < amt =>
                           ~r.ok /\ r.err = "Contract has insufficient balance"
                    /\ eth[ReceiverContract] + v >= amt /\ ~r.ok =>
                           r.err = "ETH transfer failed"
                    /\ eth[ReceiverContract] + v >= amt /\ cb = Reject => ~r.ok

C11_Step ==
    last'.op = "transferWithValue" =>
        LET a == last'.sender
            b == last'.to
            amt == last'.amount
            paid == MoveEth(Cur, a, ReceiverContract, last'.value)
        IN  /\ eth' = MoveEth(paid, ReceiverContract, b, amt).eth
            /\ balances' = balances
            /\ totalReceived' = totalReceived
            /\ log' = <<InternalTransferExecuted(ReceiverContract, b, amt)>>

\* C11: transferWithValue(recipient, amount), for every caller and every
\* recipient (the Ledger itself included), fails with "Contract has
\* insufficient balance" when the pool is below amount and with "ETH transfer
\* failed" when the value call fails; when it succeeds it moves exactly
\* amount from the pool to the recipient, changes no ledger balance and not
\* totalReceived, and emits InternalTransferExecuted(Ledger, recipient,
\* amount) and nothing else.
C11_TransferWithValue == []C11_Rejected /\ [][C11_Step]_vars

\* The number of executions of fn that ran to their end in a transaction.
Completed(tr, fn) ==
    Cardinality({i \in 1..Len(tr) : tr[i][1] = "exit" /\ tr[i][2] = fn})

C12_Rejected ==
    \A d \in Drivers, n \in Amounts :
        LET r == callReceiverContract(Cur, d, n)
        IN  /\ ~r.ok => Same(r.s)
            /\ Funded(d, n) /\ n = 0 => ~r.ok /\ r.err = "Must send some ETH"
            /\ Funded(d, n) /\ n > 0 => r.ok

C12_Step ==
    /\ totalTransfers' = totalTransfers + Completed(trace', "callReceiverContract")
    /\ totalTransfers' >= totalTransfers
    /\ last'.op = "callReceiverContract" => totalTransfers' = totalTransfers + 1
    /\ last'.cb.op # "callReceiverContract" /\ last'.op # "callReceiverContract" =>
           totalTransfers' = totalTransfers

\* C12: totalTransfers counts the callReceiverContract executions that ran
\* to their end: it starts at 0 and every transaction adds to it the number
\* of such executions it contains (one for a callReceiverContract
\* transaction, one for each made by a recipient contract while it is
\* called), and nothing else changes it, so it never decreases.  With
\* msg.value 0 callReceiverContract fails with "Must send some ETH"; a
\* failed callReceiverContract leaves the counter, the Ledger's balances and
\* pool, the event log and the caller's value as they were.
C12_CounterCountsCalls ==
    /\ totalTransfers = 0
    /\ []C12_Rejected
    /\ [][C12_Step]_vars

\* A forwarded deposit has been counted and a zero-value call is refused.
C12_Witness ==
    /\ last.op = "callReceiverContract"
    /\ totalTransfers = 1
    /\ Completed(trace, "callReceiverContract") = 1
    /\ ~callReceiverContract(Cur, last.sender, 0).ok

\* The Ledger operations that make an external sub-call, and those a called
\* recipient could run meanwhile.
C13_Outer == {"transferTo", "transferWithValue", "withdraw"}
C13_Inner == {"receiveFunds", "transferTo", "transferWithValue"}

\* Step j of tr starts a Ledger operation while the one started at step i
\* has not finished.
C13_Inside(tr, i, j) ==
    /\ i < j
    /\ tr[i][1] = "enter" /\ tr[i][2] \in C13_Outer
    /\ tr[j][1] = "enter" /\ tr[j][2] \in C13_Inner
    /\ \A k \in (i + 1)..(j - 1) : tr[k] # <<"exit", tr[i][2], tr[i][3]>>

\* C13: no two Ledger operations interleave: while transferTo,
\* transferWithValue or withdraw is executing its external sub-call, no other
\* Ledger operation (receiveFunds, transferTo, transferWithValue) starts and
\* completes before the outer one has finished.
C13_NoInterleaving ==
    \A i, j \in 1..Len(trace) : ~C13_Inside(trace, i, j)

\* By how much a transaction made the pool grow (0 when it did not grow).
C14_PoolGrowth ==
    IF eth'[ReceiverContract] > eth[ReceiverContract]
    THEN eth'[ReceiverContract] - eth[ReceiverContract]
    ELSE 0

C14_Step ==
    /\ Sum(balances') - Sum(balances) <= C14_PoolGrowth
    /\ last'.op \in {"transferTo", "transferWithValue"} =>
           Sum(balances') <= Sum(balances)

\* C14: no operation increases the sum of the ledger balances by more than
\* the pool grows in that operation; transferTo and transferWithValue, for
\* every recipient (the Ledger's own address included), never increase the
\* sum of the balances.
C14_NoUnbackedCredit == [][C14_Step]_vars

\* The position of the first step of tr that is of the given kind.
FirstStep(tr, Kind(_)) ==
    CHOOSE i \in 1..Len(tr) : Kind(tr[i]) /\ \A j \in 1..(i - 1) : ~Kind(tr[j])

C15_Step ==
    last'.op \in {"transferTo", "triggerInternalTransfer"} =>
        LET probe == FirstStep(trace', LAMBDA t : t[1] = "call" /\ t[2] = ReceiverContract)
            debit == FirstStep(trace', LAMBDA t : t[1] = "debit")
            credit == FirstStep(trace', LAMBDA t : t[1] = "credit")
            event == FirstStep(trace', LAMBDA t : t = <<"emit", "InternalTransferExecuted">>)
        IN  /\ probe < debit
            /\ probe < credit
            /\ debit < event
            /\ credit < event

\* C15: in transferTo the steps occur in the order: zero-value probe of the
\* recipient, then the debit of the sender and the credit of the recipient,
\* then the events; the recipient is never probed while the balances already
\* reflect the transfer.
C15_ProbeThenMutateThenEmit == [][C15_Step]_vars

C15_CodeStep ==
    last'.op \in {"transferTo", "triggerInternalTransfer"} =>
        LET probe == FirstStep(trace', LAMBDA t : t[1] = "call" /\ t[2] = ReceiverContract)
            debit == FirstStep(trace', LAMBDA t : t[1] = "debit")
            credit == FirstStep(trace', LAMBDA t : t[1] = "credit")
            event == FirstStep(trace', LAMBDA t : t = <<"emit", "InternalTransferExecuted">>)
        IN  /\ debit < credit
            /\ credit < probe
            /\ probe < event
            /\ trace'[debit] = <<"debit", IF last'.op = "transferTo" THEN last'.sender
                                          ELSE ContractCaller>>
            /\ trace'[credit] = <<"credit", last'.to>>
            /\ trace'[probe] = <<"call", ReceiverContract, last'.to>>

\* C15 as the code has it: in transferTo the balance check comes first, then
\* the debit of the sender, then the credit of the recipient, then the
\* zero-value probe of the recipient, then the events; the recipient is
\* probed while the balances already reflect the transfer.
C15_MutateThenProbeThenEmit == [][C15_CodeStep]_vars

\* Mallory, with no balance of its own, passed on during the probe the
\* amount the transfer had just credited to it.
C15_Witness ==
    /\ last.op = "transferTo"
    /\ last.sender = Deployer
    /\ last.to = Mallory
    /\ last.amount = 1
    /\ last.cb.op = "transferTo"
    /\ Completed(trace, "transferTo") = 2
    /\ balances[Mallory] = 0

\* The value a transaction brought into the Ledger from outside through its
\* deposit paths: as the transaction's own deposit, or as the deposit the
\* called recipient contract made meanwhile.
C16_Deposited(tx) ==
    (IF tx.op \in {"receiveFunds", "receive", "callReceiverContract"}
     THEN tx.amount ELSE 0)
    + (IF tx.op \in {"transferTo", "transferWithValue", "triggerInternalTransfer"}
          /\ tx.to = Mallory
          /\ tx.cb.op \in {"receiveFunds", "callReceiverContract"}
       THEN tx.cb.amt ELSE 0)

C16_Step ==
    /\ totalReceived' >= totalReceived
    /\ totalReceived' = totalReceived + C16_Deposited(last')
    /\ last'.op \in {"transferTo", "transferWithValue", "withdraw",
                     "triggerInternalTransfer"}
       /\ last'.cb.op \notin {"receiveFunds", "callReceiverContract"} =>
           totalReceived' = totalReceived

\* C16: totalReceived never decreases and is the sum of the value deposited
\* into the Ledger from outside by successful receiveFunds and bare receive
\* calls: it starts at 0 and every transaction adds to it exactly the value
\* deposited in it; transferTo, transferWithValue, withdraw and
\* triggerInternalTransfer do not change it.
C16_TotalReceivedIsDeposits == totalReceived = 0 /\ [][C16_Step]_vars

C20_Step ==
    /\ eth'[ContractCaller] >= eth[ContractCaller]
    /\ last'.op \in {"callReceiverContract", "triggerInternalTransfer"} =>
           eth'[ContractCaller] = eth[ContractCaller]
    /\ last'.op = "callerReceive" =>
           eth'[ContractCaller] = eth[ContractCaller] + last'.amount
    /\ getReceiverBalance' = eth'[ReceiverContract]

\* C20: the Relay's native balance never decreases: callReceiverContract
\* forwards exactly the msg.value it received (net change zero),
\* triggerInternalTransfer moves no value of the Relay, getReceiverBalance
\* only reads the pool, and value the Relay accepted through its receive()
\* (plain transfers, value calls and probes from the Ledger) is not moved
\* out by any operation.
C20_RelayKeepsValue == [][C20_Step]_vars

\* The Relay holds value received earlier and has since forwarded a deposit
\* or relayed a transfer.
C20_Witness ==
    /\ eth[ContractCaller] > 0
    /\ last.op \in {"callReceiverContract", "triggerInternalTransfer"}
    /\ last.amount > 0

\* The step sent a transaction.
Sends == Len(sent') > Len(sent)

C17_Step ==
    /\ Sends /\ script = "deploy" /\ Len(sent) = 0 =>
           /\ sent'[1].data = "ReceiverContract"
           /\ sent'[1].args = << >>
           /\ sent'[1].nonce = chainNonce
    /\ Sends /\ script = "deploy" /\ Len(sent) = 1 =>
           /\ sent[1].data = "ReceiverContract"
           /\ Len(receipts) = 1
           /\ sent'[2].data = "ContractCaller"
           /\ sent'[2].nonce = sent[1].nonce + 1
           /\ sent'[2].args = <<receipts[1].contractAddress>>
           /\ receipts[1].contractAddress = ContractAddress(sent[1].nonce)
    /\ Len(sent') <= 2
    /\ artifact' # artifact =>
           /\ script = "deploy"
           /\ Len(sent) = 2 /\ Len(receipts) = 2
           /\ artifact' = <<[receiver |-> [address |-> ContractAddress(sent[1].nonce)],
                             caller |-> [address |-> ContractAddress(sent[2].nonce)]]>>
    /\ script' = "deploy"
       /\ failed' \cap {"getGasPrice", "signTransaction", "sendSignedTransaction"} # {} =>
           /\ artifact' = artifact
           /\ exitCode' = <<1>>
    /\ Sends /\ script = "call" =>
           /\ artifact # << >>
           /\ sent'[1].to = artifact[1].caller.address

\* C17: the deploy script deploys ReceiverContract first, with the account's
\* transaction count n as nonce, then ContractCaller with nonce n + 1 and the
\* address of the deployed ReceiverContract as its constructor argument, and
\* writes deployment_info.json only after both receipts were obtained; when
\* either deployment fails the file is not written and the process exits
\* with status 1.  The call script sends a transaction only when the file
\* exists.
C17_DeployThenWrite == [][C17_Step]_vars

\* After a complete deployment the call script has sent its transaction to
\* the ContractCaller the file names.
C17_Witness ==
    /\ script = "call"
    /\ Len(sent) = 1
    /\ artifact # << >>
    /\ sent[1].to = artifact[1].caller.address
    /\ artifact[1].caller.address[2] = artifact[1].receiver.address[2] + 1

\* A driver process has ended.
Exited == exitCode # << >>

C18_EnvChecked ==
    script # "none" /\ (~env.RPC_URL \/ ~env.PRIVATE_KEY) =>
        /\ exitCode = <<1>>
        /\ "error" \in logged
        /\ sent = << >>
        /\ receipts = << >>

\* The failures of a transaction of the driver, and of the whole inspection
\* that follows the callReceiverContract transaction (debug_traceTransaction
\* is tried when trace_transaction gave nothing, and failed too).
C18_Operations ==
    {"getGasPrice", "signTransaction", "sendSignedTransaction", "debug_traceTransaction"}

\* C18: both scripts exit with nonzero status, before signing or sending any
\* transaction, when RPC_URL or PRIVATE_KEY is absent; whenever an operation
\* of the driver fails (a deployment transaction, the callReceiverContract
\* transaction, or a step following it) the error is logged and the process
\* exits nonzero; the process exits with 0 only when every operation
\* succeeded.
C18_FailuresExitNonzero ==
    /\ C18_EnvChecked
    /\ Exited /\ failed \cap C18_Operations # {} =>
           exitCode = <<1>> /\ "error" \in logged
    /\ exitCode = <<0>> => failed \cap C18_Operations = {}

\* The failures the scripts go on after, with a warning.
C18_Tolerated ==
    {"estimateGas", "trace_transaction", "trace entries", "debug_traceTransaction",
     "debug trace"}

\* C18 as the code has it: both scripts exit with status 1, before signing
\* or sending any transaction, when RPC_URL or PRIVATE_KEY is absent; a
\* failure of compilation, of the account set-up, of a transaction (gas
\* price, signing, sending), of writing or of reading deployment_info.json
\* is reported and the process exits with status 1; a failed gas estimation
\* and failures of the trace RPCs after the callReceiverContract transaction
\* are warned about and do not change the exit status: the process exits
\* with 0 exactly when every transaction of the script got its receipt (and
\* the deploy script wrote the file), whether or not the inspection worked.
C18_TransactionFailuresExitNonzero ==
    /\ C18_EnvChecked
    /\ Exited /\ failed \ C18_Tolerated # {} =>
           exitCode = <<1>> /\ logged \cap {"error", "uncaught"} # {}
    /\ Exited /\ failed \subseteq C18_Tolerated => exitCode = <<0>>
    /\ failed \cap C18_Tolerated # {} => "warn" \in logged
    /\ exitCode = <<0>> /\ script = "deploy" =>
           Len(receipts) = 2 /\ artifact # << >>
    /\ exitCode = <<0>> /\ script = "call" =>
           Len(receipts) = 1 /\ Len(rpcs) >= 1

\* The call script ended with status 0 although both trace RPCs failed.
C18_Witness ==
    /\ script = "call"
    /\ exitCode = <<0>>
    /\ {"trace_transaction", "debug_traceTransaction"} \subseteq failed

\* C19: inspectInternalTransactions tries trace_transaction first and tries
\* debug_traceTransaction if and only if trace_transaction threw or returned
\* something that is not an array; it runs only after the receipt of the
\* callReceiverContract transaction was obtained, issues at most two trace
\* RPCs, and always returns normally, so that the process ends with status 0.
C19_TraceThenDebug ==
    /\ Len(rpcs) <= 2
    /\ Len(rpcs) >= 1 =>
           /\ rpcs[1].method = "trace_transaction"
           /\ script = "call"
           /\ Len(sent) = 1 /\ Len(receipts) = 1
    /\ Len(rpcs) = 2 =>
           /\ rpcs[2].method = "debug_traceTransaction"
           /\ rpcs[1].result \in {"threw", "notArray"}
    /\ Len(rpcs) = 1 /\ Exited => rpcs[1].result \notin {"threw", "notArray"}
    /\ Len(rpcs) >= 1 /\ Exited => exitCode = <<0>>

====
